---------------------------- MODULE Spec2Model ----------------------------
(***************************************************************************)
(* httpmon: a concurrent HTTP load generator and monitor (src/httpmon.cc). *)
(*                                                                         *)
(* The module models                                                       *)
(*   - the pure functions median() and quartiles() (specification SpecQ), *)
(*   - the process: main() (the controller), the httpClientMain() worker  *)
(*     threads, the shared HttpClientControl structure with its mutex,     *)
(*     and the delivery of SIGINT / SIGQUIT (specifications Spec and       *)
(*     FairSpec; SpecCfg for any command line),                            *)
(*   - the write callback nullWriter() and the worker's use of it          *)
(*     (specification SpecW).                                              *)
(*                                                                         *)
(* Latencies are C++ doubles.  The model draws them from small positive    *)
(* integers, and every value returned by median()/quartiles() is kept in   *)
(* HALF units (twice the C++ value), so that the division by two of the    *)
(* even-length median is exact.  The clock (now(), the timestamp and the   *)
(* throughput field of the report line) is not modelled.                   *)
(***************************************************************************)
EXTENDS Integers, Sequences, FiniteSets, TLC

(***************************************************************************)
(* Bounds of the model.                                                    *)
(***************************************************************************)
\* number of worker threads (--concurrency)
NumWorkers == 2
\* total number of requests the workers start in one run
MaxRequests == 2
\* latencies of a request are drawn from 1..MaxLatency
MaxLatency == 1
\* SpecQ: length of the sample handed to quartiles() is in 0..MaxLen
MaxLen == 5
\* SpecQ: values of the sample handed to quartiles() are in 1..MaxVal
MaxVal == 5
\* SpecW: requests the worker performs
MaxTransfers == 2
\* SpecW: chunks in which curl hands over the body of one response
MaxChunks == 2
\* SpecW: bytes in one chunk (0..MaxChunkLen)
MaxChunkLen == 2

(***************************************************************************)
(* Program constants.                                                      *)
(***************************************************************************)
SIGINT == 2
SIGQUIT == 3
Signals == {SIGINT, SIGQUIT}
SpecialRecommendationMarker == 128

(***************************************************************************)
(* C++ integer division and remainder (truncation toward zero; the         *)
(* remainder takes the sign of the dividend), for a positive divisor.      *)
(***************************************************************************)
CDiv(a, b) == IF a >= 0 THEN a \div b ELSE -((-a) \div b)
CMod(a, b) == a - b * CDiv(a, b)

(***************************************************************************)
(* What a read of element i (0-based) of a vector of Len(a) doubles        *)
(* yields.  A read outside [0, Len(a)) is undefined behaviour: it yields   *)
(* whatever lies beside the buffer, the value g chosen by the caller from  *)
(* Garbage: a value below every sample value or one above every sample     *)
(* value.                                                                  *)
(***************************************************************************)
Garbage == {0, MaxVal + 1}
ReadElt(a, i, g) == IF i >= 0 /\ i < Len(a) THEN a[i + 1] ELSE g

(***************************************************************************)
(* std::sort(a.begin(), a.end()): insertion sort, ascending.               *)
(***************************************************************************)
RECURSIVE InsertSorted(_, _)
InsertSorted(s, x) ==
    IF s = <<>> THEN <<x>>
    ELSE IF x <= Head(s) THEN <<x>> \o s
    ELSE <<Head(s)>> \o InsertSorted(Tail(s), x)

RECURSIVE Sort(_)
Sort(a) == IF a = <<>> THEN <<>> ELSE InsertSorted(Sort(Tail(a)), Head(a))

(***************************************************************************)
(* median(begin, end) over a (sorted) vector a, with begin = a.begin()+lo  *)
(* and end = a.begin()+hi.  Returns the value in half units and the set    *)
(* of (0-based) indices of a it reads.                                     *)
(***************************************************************************)
median(a, lo, hi, g) ==
    LET n == hi - lo
        m == CDiv(n - 1, 2)
    IN  IF CMod(n - 1, 2) = 0
        THEN [val   |-> 2 * ReadElt(a, lo + m, g),
              reads |-> {lo + m}]
        ELSE [val   |-> ReadElt(a, lo + m, g) + ReadElt(a, lo + m + 1, g),
              reads |-> {lo + m, lo + m + 1}]

(***************************************************************************)
(* The guard of quartiles(): if (n < 1) throw std::logic_error.            *)
(***************************************************************************)
NoDataGuard_Never(n) == n < 0
NoDataGuard(n) == n < 1

(***************************************************************************)
(* quartiles(a): the outcome of the call.                                  *)
(*   thrown : std::logic_error was thrown                                  *)
(*   a      : the vector after the call (sorted in place unless thrown)    *)
(*   ret    : <<min, Q1, median, Q3, max>> in half units (ret[0..4] of the *)
(*            C++ array are ret[1..5] here)                                *)
(*   reads  : the indices of a that were read                              *)
(* n - 1 is computed in size_t: for n = 0 it wraps to an index far outside *)
(* the vector (modelled by -1, which is outside as well).                  *)
(***************************************************************************)
quartiles(a, g) ==
    LET n == Len(a)
    IN  IF NoDataGuard(n)
        THEN [thrown |-> TRUE, a |-> a, ret |-> <<>>, reads |-> {}]
        ELSE LET s   == Sort(a)
                 med == median(s, 0, n, g)
                 q1  == median(s, 0, n \div 2, g)
                 q3  == median(s, n \div 2, n, g)
             IN  [thrown |-> FALSE,
                  a      |-> s,
                  ret    |-> << 2 * ReadElt(s, 0, g), q1.val, med.val, q3.val,
                                2 * ReadElt(s, n - 1, g) >>,
                  reads  |-> {0, n - 1} \cup med.reads \cup q1.reads \cup q3.reads]


(***************************************************************************)
(* State.                                                                  *)
(***************************************************************************)
VARIABLES
    \* HttpClientControl (shared)
    running, mutex, numErrors, numRecommendations, latencies,
    \* main(): position, loop counters and locals
    cpc, spawned, joined, signo,
    m_numErrors, m_numRecommendations, m_latencies,
    recommendationRate,
    \* httpClientMain(): position and locals of each worker thread
    wpc, error, recommendation, latency,
    \* requests started so far
    nreq,
    \* signals: threads whose mask blocks SIGINT/SIGQUIT, signals pending
    \* on the process
    blocked, pending,
    \* the process: "alive", "exited" (main returned 0), "killed" (default
    \* disposition of SIGINT/SIGQUIT), "sigfpe" (integer division by zero),
    \* "aborted" (std::terminate after an uncaught exception)
    proc,
    \* history: how many of the samples in latencies / m_latencies come
    \* from a request with error / with recommendation set
    tags, m_tags,
    \* history: the record operations (n), and those of them with error
    \* (err) and with recommendation (sig) set, that have entered their
    \* record block since the last drain; and that count as it was when
    \* the last drain took its snapshot
    pend, m_expected,
    \* history: the record operations completed since the program started
    \* (n), and those of them with error (err) and with recommendation
    \* (sig) set; and the sums, over the snapshots taken so far, of the
    \* number of samples, of numErrors and of numRecommendations
    total, drained,
    \* SpecQ: a call of quartiles() on the sample qin
    qpc, qin, qres,
    \* the command line: --url given, --concurrency (lines 125-126)
    url, concurrency,
    \* SpecW: one worker and the body of its responses.  nwpc: position;
    \* nwrecommendation: the worker's local recommendation; nwchunks: the
    \* number of calls of nullWriter in this request; nwbody (history): the
    \* bytes handed to nullWriter so far in this request, i.e. the body as
    \* far as it is received; nwleft: requests still to do; nwcount: what
    \* the worker has added to control.numRecommendations
    nwpc, nwrecommendation, nwchunks, nwbody, nwleft, nwcount

ctlvars  == << running, mutex, numErrors, numRecommendations, latencies >>
snapvars == << m_numErrors, m_numRecommendations, m_latencies >>
statvars == << recommendationRate >>
mainvars == << cpc, spawned, joined, signo, snapvars, statvars >>
wrkvars  == << wpc, error, recommendation, latency, nreq >>
sigvars  == << blocked, pending >>
histvars == << tags, m_tags, pend, m_expected, total, drained >>
cfgvars  == << url, concurrency >>
sysvars  == << ctlvars, mainvars, wrkvars, sigvars, proc, histvars, cfgvars >>
qvars    == << qpc, qin, qres >>
nwvars   == << nwpc, nwrecommendation, nwchunks, nwbody, nwleft, nwcount >>
vars     == << sysvars, qvars, nwvars >>

MainThread == 0
Workers    == 1 .. NumWorkers
Latencies  == 1 .. MaxLatency
NoCounts   == [n |-> 0, err |-> 0, sig |-> 0]
NoTags     == [err |-> 0, sig |-> 0]
NoResult   == [called |-> FALSE]
Samples    == UNION { [1 .. n -> 1 .. MaxVal] : n \in 0 .. MaxLen }

Alive == proc = "alive"

(***************************************************************************)
(* The state when main() is entered (options parsed, line 132), with the   *)
(* control structure as lines 146-151 set it: InitState for whatever       *)
(* command line, InitSys for a command line that gives a URL and the       *)
(* concurrency NumWorkers.                                                 *)
(***************************************************************************)
InitState ==
    /\ running = TRUE
    /\ mutex = {}
    /\ numErrors = 0
    /\ numRecommendations = 0
    /\ latencies = <<>>
    /\ cpc = "spawn"
    /\ spawned = 0
    /\ joined = 0
    /\ signo = 0
    /\ m_numErrors = 0
    /\ m_numRecommendations = 0
    /\ m_latencies = <<>>
    /\ recommendationRate = 0
    /\ wpc = [w \in Workers |-> "unborn"]
    /\ error = [w \in Workers |-> FALSE]
    /\ recommendation = [w \in Workers |-> FALSE]
    /\ latency = [w \in Workers |-> 0]
    /\ nreq = 0
    /\ blocked = {}
    /\ pending = {}
    /\ proc = "alive"
    /\ tags = NoTags
    /\ m_tags = NoTags
    /\ pend = NoCounts
    /\ m_expected = NoCounts
    /\ total = NoCounts
    /\ drained = NoCounts

InitSys ==
    /\ InitState
    /\ url = TRUE
    /\ concurrency = NumWorkers

InitQIdle ==
    /\ qpc = "idle"
    /\ qin = <<>>
    /\ qres = NoResult

InitWIdle ==
    /\ nwpc = "idle"
    /\ nwrecommendation = FALSE
    /\ nwchunks = 0
    /\ nwbody = <<>>
    /\ nwleft = 0
    /\ nwcount = 0

Init == InitSys /\ InitQIdle /\ InitWIdle


(***************************************************************************)
(* std::lock_guard<std::mutex> lock(control.mutex): thread t may take the  *)
(* mutex when no thread holds it.  mutex is the set of holders.            *)
(***************************************************************************)
LockGuard_NoExclusion(t) == TRUE
LockGuard(t) == mutex = {}

(***************************************************************************)
(*                         httpClientMain (worker w)                       *)
(***************************************************************************)

\* while (control.running), then the start of an iteration:
\* start = now(); recommendation = false (lines 85-88); when running is
\* false: curl_easy_cleanup(curl); return 0 (lines 103-105), which ends
\* the life of the thread's locals
WorkerCheck(w) ==
    /\ Alive
    /\ wpc[w] = "check"
    /\ IF running
       THEN /\ nreq < MaxRequests
            /\ nreq' = nreq + 1
            /\ recommendation' = [recommendation EXCEPT ![w] = FALSE]
            /\ wpc' = [wpc EXCEPT ![w] = "perform"]
       ELSE /\ wpc' = [wpc EXCEPT ![w] = "done"]
            /\ recommendation' = [recommendation EXCEPT ![w] = FALSE]
            /\ UNCHANGED nreq
    /\ UNCHANGED << ctlvars, mainvars, error, latency, sigvars, proc,
                    histvars, qvars, cfgvars, nwvars >>

\* where the worker goes once curl_easy_perform has returned with error e:
\* on to the record block, whatever e is (lines 89-94)
AfterPerform_BreakOnError(e) == IF e THEN "done" ELSE "lock"
AfterPerform(e) == "lock"

\* bool error = (curl_easy_perform(curl) != 0); latency = now() - start
\* (lines 89-90).  The transport decides the outcome: e (failure, timeout,
\* non-success status), r (nullWriter saw the marker byte), l (seconds).
\* With an empty control.url (line 77) the transfer fails before any byte
\* is received: e is true and nullWriter is not called.
WorkerPerform(w) ==
    /\ Alive
    /\ wpc[w] = "perform"
    /\ \E e \in BOOLEAN, r \in BOOLEAN, l \in Latencies :
          /\ url \/ (e /\ ~r)
          /\ error' = [error EXCEPT ![w] = e]
          /\ recommendation' = [recommendation EXCEPT ![w] = r]
          /\ latency' = [latency EXCEPT ![w] = l]
          /\ wpc' = [wpc EXCEPT ![w] = AfterPerform(e)]
    /\ UNCHANGED << ctlvars, mainvars, nreq, sigvars, proc, histvars, qvars, cfgvars, nwvars >>

\* what "if (flag) counter++" adds to the counter (lines 96-99)
CountIf_Always(flag) == 1
CountIf_Twice(flag) == IF flag THEN 2 ELSE 0
CountIf(flag) == IF flag THEN 1 ELSE 0

\* std::lock_guard<std::mutex> lock(control.mutex);
\* if (error) control.numErrors++;
\* if (recommendation) control.numRecommendations++;  (lines 95-99)
RecordCounts(w) ==
    /\ Alive
    /\ wpc[w] = "lock"
    /\ LockGuard(w)
    /\ mutex' = mutex \cup {w}
    /\ numErrors' = numErrors + CountIf(error[w])
    /\ numRecommendations' = numRecommendations + CountIf(recommendation[w])
    /\ pend' = [n   |-> pend.n + 1,
                err |-> pend.err + (IF error[w] THEN 1 ELSE 0),
                sig |-> pend.sig + (IF recommendation[w] THEN 1 ELSE 0)]
    /\ wpc' = [wpc EXCEPT ![w] = "push"]
    /\ UNCHANGED << running, latencies, mainvars, error, recommendation,
                    latency, nreq, sigvars, proc, tags, m_tags, m_expected,
                    total, drained, qvars, cfgvars, nwvars >>

\* control.latencies.push_back(latency); the lock_guard's scope ends, and
\* with it the iteration: error and latency go out of scope (lines 100-102)
RecordLatency(w) ==
    /\ Alive
    /\ wpc[w] = "push"
    /\ latencies' = Append(latencies, latency[w])
    /\ tags' = [err |-> tags.err + (IF error[w] THEN 1 ELSE 0),
                sig |-> tags.sig + (IF recommendation[w] THEN 1 ELSE 0)]
    /\ total' = [n   |-> total.n + 1,
                 err |-> total.err + (IF error[w] THEN 1 ELSE 0),
                 sig |-> total.sig + (IF recommendation[w] THEN 1 ELSE 0)]
    /\ mutex' = mutex \ {w}
    /\ error' = [error EXCEPT ![w] = FALSE]
    /\ latency' = [latency EXCEPT ![w] = 0]
    /\ wpc' = [wpc EXCEPT ![w] = "check"]
    /\ UNCHANGED << running, numErrors, numRecommendations, mainvars,
                    recommendation, nreq, sigvars, proc, m_tags, pend,
                    m_expected, drained, qvars, cfgvars, nwvars >>

WorkerStep(w) ==
    \/ WorkerCheck(w)
    \/ WorkerPerform(w)
    \/ RecordCounts(w)
    \/ RecordLatency(w)

(***************************************************************************)
(*                          main (the controller)                          *)
(***************************************************************************)

\* httpClientThreads[i] = std::thread(httpClientMain, i, ...) (lines 155-157).
\* The new thread inherits the signal mask of the thread that creates it,
\* sets up its curl handle (lines 76-83) and reaches its loop.
SpawnWorker ==
    /\ Alive
    /\ cpc = "spawn"
    /\ spawned < concurrency
    /\ spawned' = spawned + 1
    /\ wpc' = [wpc EXCEPT ![spawned + 1] = "check"]
    /\ blocked' = IF MainThread \in blocked
                  THEN blocked \cup {spawned + 1} ELSE blocked
    /\ UNCHANGED << ctlvars, cpc, joined, signo, snapvars, statvars,
                    error, recommendation, latency, nreq, pending,
                    proc, histvars, qvars, cfgvars, nwvars >>

\* sigprocmask(SIG_BLOCK, &sigset, NULL) (lines 164-168), after the spawn
\* loop: it changes the mask of the calling thread only.
BlockSignals ==
    /\ Alive
    /\ cpc = "spawn"
    /\ spawned >= concurrency
    /\ blocked' = blocked \cup {MainThread}
    /\ cpc' = "loop"
    /\ UNCHANGED << ctlvars, spawned, joined, signo, snapvars,
                    statvars, wrkvars, pending, proc, histvars, qvars, cfgvars, nwvars >>

\* while (control.running) (line 173); when false: line 211 and the join loop
LoopTest ==
    /\ Alive
    /\ cpc = "loop"
    /\ cpc' = IF running THEN "wait" ELSE "join"
    /\ UNCHANGED << ctlvars, spawned, joined, signo, snapvars,
                    statvars, wrkvars, sigvars, proc, histvars, qvars, cfgvars, nwvars >>

\* a wait step that clears running whatever sigtimedwait returns
SigWait_AnyReturn ==
    /\ Alive
    /\ cpc = "wait"
    /\ \/ \E s \in pending :
             /\ signo' = s
             /\ pending' = pending \ {s}
       \/ /\ pending = {}
          /\ signo' = -1
          /\ UNCHANGED pending
    /\ running' = FALSE
    /\ cpc' = "lock"
    /\ UNCHANGED << mutex, numErrors, numRecommendations, latencies,
                    spawned, joined, snapvars, statvars,
                    wrkvars, blocked, proc, histvars, qvars, cfgvars, nwvars >>

\* signo = sigtimedwait(&sigset, NULL, &timeout);
\* if (signo > 0) control.running = false;  (lines 174-178)
\* A pending signal of the set is returned; with none pending the call
\* returns -1 after one second.
SigWait ==
    /\ Alive
    /\ cpc = "wait"
    /\ \/ \E s \in pending :
             /\ signo' = s
             /\ pending' = pending \ {s}
             /\ running' = FALSE
       \/ /\ pending = {}
          /\ signo' = -1
          /\ UNCHANGED << pending, running >>
    /\ cpc' = "lock"
    /\ UNCHANGED << mutex, numErrors, numRecommendations, latencies,
                    spawned, joined, snapvars, statvars,
                    wrkvars, blocked, proc, histvars, qvars, cfgvars, nwvars >>

\* std::lock_guard<std::mutex> lock(control.mutex);
\* numErrors = control.numErrors; numRecommendations = ...; latencies = ...
\* (lines 185-189)
DrainCopy ==
    /\ Alive
    /\ cpc = "lock"
    /\ LockGuard(MainThread)
    /\ mutex' = mutex \cup {MainThread}
    /\ m_numErrors' = numErrors
    /\ m_numRecommendations' = numRecommendations
    /\ m_latencies' = latencies
    /\ m_tags' = tags
    /\ m_expected' = pend
    /\ pend' = NoCounts
    /\ drained' = [n   |-> drained.n + Len(latencies),
                   err |-> drained.err + numErrors,
                   sig |-> drained.sig + numRecommendations]
    /\ cpc' = "reset"
    /\ UNCHANGED << running, numErrors, numRecommendations, latencies,
                    spawned, joined, signo, statvars,
                    wrkvars, sigvars, proc, tags, total, qvars, cfgvars,
                    nwvars >>

\* what "control.counter = 0" stores (lines 191-192)
ClearedCount_Kept(old) == old
ClearedCount(old) == 0

\* control.numErrors = 0; control.numRecommendations = 0 (lines 191-192)
DrainResetCounts ==
    /\ Alive
    /\ cpc = "reset"
    /\ numErrors' = ClearedCount(numErrors)
    /\ numRecommendations' = ClearedCount(numRecommendations)
    /\ cpc' = "clear"
    /\ UNCHANGED << running, mutex, latencies,
                    spawned, joined, signo, snapvars, statvars,
                    wrkvars, sigvars, proc, histvars, qvars, cfgvars, nwvars >>

\* control.latencies.clear(); reportTime = now(); the lock_guard's scope
\* ends (lines 193-195)
DrainClear ==
    /\ Alive
    /\ cpc = "clear"
    /\ latencies' = <<>>
    /\ tags' = NoTags
    /\ mutex' = mutex \ {MainThread}
    /\ cpc' = "rate"
    /\ UNCHANGED << running, numErrors, numRecommendations,
                    spawned, joined, signo, snapvars, statvars,
                    wrkvars, sigvars, proc, m_tags, pend, m_expected, total,
                    drained, qvars, cfgvars, nwvars >>

\* int recommendationRate = numRecommendations * 100 / latencies.size();
\* (line 198).  An integer division: with an empty sample it divides by
\* zero, which is undefined: the process gets SIGFPE, or the division
\* yields some value (0 here) and main goes on.
ComputeRate ==
    /\ Alive
    /\ cpc = "rate"
    /\ IF Len(m_latencies) = 0
       THEN \/ /\ proc' = "sigfpe"
               /\ UNCHANGED << recommendationRate, cpc >>
            \/ /\ recommendationRate' = 0
               /\ cpc' = "report"
               /\ UNCHANGED proc
       ELSE /\ recommendationRate' =
                   (m_numRecommendations * 100) \div Len(m_latencies)
            /\ cpc' = "report"
            /\ UNCHANGED proc
    /\ UNCHANGED << ctlvars, spawned, joined, signo, snapvars,
                    wrkvars, sigvars, histvars, qvars, cfgvars, nwvars >>

\* auto latencyQuartiles = quartiles(latencies); lastReportTime = reportTime;
\* fprintf(stderr, "[%f] latency=...ms throughput=...rps rr=...% errors=...")
\* (lines 199-209); the iteration ends and its locals go out of scope.
\* Nothing catches the std::logic_error of quartiles: std::terminate aborts
\* the process.
Report ==
    /\ Alive
    /\ cpc = "report"
    /\ \E g \in Garbage :
          LET q == quartiles(m_latencies, g)
          IN  IF q.thrown
              THEN /\ proc' = "aborted"
                   /\ UNCHANGED << cpc, snapvars, statvars, m_tags,
                                   m_expected >>
              ELSE /\ m_numErrors' = 0
                   /\ m_numRecommendations' = 0
                   /\ m_latencies' = <<>>
                   /\ m_tags' = NoTags
                   /\ m_expected' = NoCounts
                   /\ recommendationRate' = 0
                   /\ cpc' = "loop"
                   /\ UNCHANGED proc
    /\ UNCHANGED << ctlvars, spawned, joined, signo, wrkvars, sigvars,
                    tags, pend, total, drained, qvars, cfgvars, nwvars >>

\* a join that returns while the thread is still running
JoinWorker_NoWait ==
    /\ Alive
    /\ cpc = "join"
    /\ joined < concurrency
    /\ joined' = joined + 1
    /\ UNCHANGED << ctlvars, cpc, spawned, signo, snapvars, statvars,
                    wrkvars, sigvars, proc, histvars, qvars, cfgvars, nwvars >>

\* httpClientThreads[i].join() (lines 216-218): returns once thread i has
\* returned from httpClientMain
JoinWorker ==
    /\ Alive
    /\ cpc = "join"
    /\ joined < concurrency
    /\ wpc[joined + 1] = "done"
    /\ joined' = joined + 1
    /\ UNCHANGED << ctlvars, cpc, spawned, signo, snapvars, statvars,
                    wrkvars, sigvars, proc, histvars, qvars, cfgvars, nwvars >>

\* curl_global_cleanup(); return 0 (lines 219-221)
GlobalCleanup ==
    /\ Alive
    /\ cpc = "join"
    /\ joined >= concurrency
    /\ cpc' = "Terminated"
    /\ proc' = "exited"
    /\ UNCHANGED << ctlvars, spawned, joined, signo, snapvars,
                    statvars, wrkvars, sigvars, histvars, qvars, cfgvars, nwvars >>

MainStep ==
    \/ SpawnWorker
    \/ BlockSignals
    \/ LoopTest
    \/ SigWait
    \/ DrainCopy
    \/ DrainResetCounts
    \/ DrainClear
    \/ ComputeRate
    \/ Report
    \/ JoinWorker
    \/ GlobalCleanup

(***************************************************************************)
(* The environment sends SIGINT or SIGQUIT to the process.  A thread whose *)
(* mask does not block the signal takes it with its default disposition,   *)
(* which ends the process.  The signal stays pending on the process when   *)
(* every live thread blocks it; it may also go to main while main waits    *)
(* for it in sigtimedwait (which of the eligible threads gets a process    *)
(* signal is not specified).  Nothing is left of a killed process: its     *)
(* threads and its memory are gone, and the model keeps no state of them   *)
(* but the number of threads that had been started and the signal masks.   *)
(***************************************************************************)
LiveThreads ==
    {MainThread} \cup {w \in Workers : wpc[w] \notin {"unborn", "done"}}

\* a thread that does not block the signal takes it: default disposition
SignalKills ==
    /\ Alive
    /\ LiveThreads \ blocked # {}
    /\ proc' = "killed"
    /\ mutex' = {}
    /\ numErrors' = 0
    /\ numRecommendations' = 0
    /\ latencies' = <<>>
    /\ cpc' = "gone"
    /\ joined' = 0
    /\ signo' = 0
    /\ m_numErrors' = 0
    /\ m_numRecommendations' = 0
    /\ m_latencies' = <<>>
    /\ recommendationRate' = 0
    /\ wpc' = [w \in Workers |-> "gone"]
    /\ error' = [w \in Workers |-> FALSE]
    /\ recommendation' = [w \in Workers |-> FALSE]
    /\ latency' = [w \in Workers |-> 0]
    /\ nreq' = 0
    /\ pending' = {}
    /\ tags' = NoTags
    /\ m_tags' = NoTags
    /\ pend' = NoCounts
    /\ m_expected' = NoCounts
    /\ total' = NoCounts
    /\ drained' = NoCounts
    /\ UNCHANGED << running, spawned, blocked, qvars, cfgvars, nwvars >>

\* signal s becomes pending on the process, for sigtimedwait to return
SignalPends(s) ==
    /\ Alive
    /\ \/ LiveThreads \ blocked = {}
       \/ cpc = "wait"
    /\ pending' = pending \cup {s}
    /\ UNCHANGED << ctlvars, mainvars, wrkvars, blocked, proc, histvars,
                    qvars, cfgvars, nwvars >>

Signal ==
    \/ SignalKills
    \/ \E s \in Signals : SignalPends(s)

Next ==
    \/ MainStep
    \/ \E w \in Workers : WorkerStep(w)
    \/ Signal

Spec == Init /\ [][Next]_vars

(***************************************************************************)
(* The program on any command line: --url given or not, --concurrency      *)
(* from 0 up to NumWorkers (lines 122-132; nothing between the parsing     *)
(* and the spawn loop looks at either value).                              *)
(***************************************************************************)
InitCfg ==
    /\ InitState
    /\ url \in BOOLEAN
    /\ concurrency \in 0 .. NumWorkers
    /\ InitQIdle
    /\ InitWIdle

SpecCfg == InitCfg /\ [][Next]_vars

\* The scheduler runs every thread that can take a step; the transport
\* ends every request (curl_easy_perform returns).  Nothing obliges the
\* environment to send a signal.
FairSpec ==
    /\ Spec
    /\ WF_vars(MainStep)
    /\ \A w \in Workers : WF_vars(WorkerStep(w))

(***************************************************************************)
(* SpecQ: quartiles() called on every sample of at most MaxLen values.     *)
(***************************************************************************)
InitQ ==
    /\ InitSys
    /\ InitWIdle
    /\ qpc = "call"
    /\ qin \in Samples
    /\ qres = NoResult

\* one call quartiles(a) with a = qin (lines 42-61)
QuartilesCall ==
    /\ qpc = "call"
    /\ \E g \in Garbage :
          LET q == quartiles(qin, g)
          IN  /\ qres' = q
              /\ qpc' = IF q.thrown THEN "thrown" ELSE "returned"
    /\ UNCHANGED << qin, sysvars, nwvars >>

NextQ == QuartilesCall

SpecQ == InitQ /\ [][NextQ]_vars

(***************************************************************************)
(* SpecW: one worker and the write callback.  curl_easy_perform hands the  *)
(* body of the response to nullWriter in chunks, of any length and in any  *)
(* number; the bytes of a chunk are unsigned chars, of which the model     *)
(* takes NUL, the marker and its neighbour below.                          *)
(***************************************************************************)
Bytes  == {0, SpecialRecommendationMarker - 1, SpecialRecommendationMarker}
Chunks == UNION { [1 .. n -> Bytes] : n \in 0 .. MaxChunkLen }

\* conversion to unsigned char
ToUChar(c) == c % 256

\* memchr(ptr, c, n) != NULL: one of the first n bytes at ptr, read as
\* unsigned char, equals c converted to unsigned char
memchr(ptr, c, n) == \E i \in 1 .. n : ToUChar(ptr[i]) = ToUChar(c)

\* the value of *recommendation after nullWriter(ptr, 1, Len(ptr),
\* &recommendation) (lines 63-70)
nullWriter_LastChunk(ptr, flag) ==
    memchr(ptr, SpecialRecommendationMarker, Len(ptr))
nullWriter(ptr, flag) ==
    IF memchr(ptr, SpecialRecommendationMarker, Len(ptr)) THEN TRUE ELSE flag

InitW ==
    /\ InitSys
    /\ InitQIdle
    /\ nwpc = "check"
    /\ nwrecommendation \in BOOLEAN
    /\ nwchunks = 0
    /\ nwbody = <<>>
    /\ nwleft = MaxTransfers
    /\ nwcount = 0

\* the top of an iteration: recommendation = false (line 88)
TransferStart ==
    /\ nwpc = "check"
    /\ nwleft > 0
    /\ nwleft' = nwleft - 1
    /\ nwrecommendation' = FALSE
    /\ nwchunks' = 0
    /\ nwbody' = <<>>
    /\ nwpc' = "perform"
    /\ UNCHANGED << nwcount, sysvars, qvars >>

\* inside curl_easy_perform (line 89): curl calls the write function with
\* the next chunk of the body
TransferChunk ==
    /\ nwpc = "perform"
    /\ nwchunks < MaxChunks
    /\ \E ptr \in Chunks :
          /\ nwrecommendation' = nullWriter(ptr, nwrecommendation)
          /\ nwbody' = nwbody \o ptr
    /\ nwchunks' = nwchunks + 1
    /\ UNCHANGED << nwpc, nwleft, nwcount, sysvars, qvars >>

\* curl_easy_perform returns (line 89)
TransferEnd ==
    /\ nwpc = "perform"
    /\ nwpc' = "record"
    /\ UNCHANGED << nwrecommendation, nwchunks, nwbody, nwleft, nwcount,
                    sysvars, qvars >>

\* if (recommendation) control.numRecommendations++ (lines 98-99)
TransferRecord ==
    /\ nwpc = "record"
    /\ nwcount' = nwcount + CountIf(nwrecommendation)
    /\ nwpc' = "check"
    /\ UNCHANGED << nwrecommendation, nwchunks, nwbody, nwleft, sysvars,
                    qvars >>

NextW ==
    \/ TransferStart
    \/ TransferChunk
    \/ TransferEnd
    \/ TransferRecord

SpecW == InitW /\ [][NextW]_vars

(***************************************************************************)
(*                               Properties                                *)
(***************************************************************************)

\* main holds a snapshot taken by the drain of this tick
HasSnapshot == cpc \in {"reset", "clear", "rate", "report"}

\* main is inside the critical section of a drain (lines 185-195)
InDrain == cpc \in {"reset", "clear"}

\* worker w is inside its record block, counts added, sample not yet
\* pushed (lines 95-101)
InRecord(w) == wpc[w] = "push"

\* C1: a report tick whose snapshot holds no latency sample raises no
\* fault: the process stays alive through the rate and quartile
\* computation of that tick.
C1_EmptyTickNoFault ==
    (cpc \in {"rate", "report"} /\ m_latencies = <<>>) => proc = "alive"

\* C2: the counts a drain returns are the counts of the record operations
\* issued since the previous drain: as many samples as records, as many
\* errors as records with error set, as many recommendations as records
\* with the signal flag set, whatever the interleaving of the workers.
C2_DrainCountsRecords ==
    HasSnapshot =>
        /\ Len(m_latencies) = m_expected.n
        /\ m_numErrors = m_expected.err
        /\ m_numRecommendations = m_expected.sig

\* two records, one of them with error and one with the signal flag set,
\* were drained together
C2_Witness ==
    /\ cpc = "rate"
    /\ m_expected = [n |-> 2, err |-> 1, sig |-> 1]
    /\ Len(m_latencies) = 2

\* C3: no drain observes a partial record: while main is inside a drain no
\* worker is inside its record block, and in every snapshot the error and
\* recommendation counts are exactly those of the requests whose samples
\* are in the snapshot.
C3_NoPartialRecordInSnapshot ==
    /\ InDrain => \A w \in Workers : ~InRecord(w)
    /\ HasSnapshot =>
          /\ m_numErrors = m_tags.err
          /\ m_numRecommendations = m_tags.sig

\* a drain that took an errored record runs while a worker, its request
\* done, waits for the mutex
C3_Witness ==
    /\ cpc = "clear"
    /\ m_numErrors = 1
    /\ Len(m_latencies) = 1
    /\ \E w \in Workers : wpc[w] = "lock" /\ error[w]

\* C4: a drain resets the two counters and the sample vector in one
\* critical section: while only some of them are reset main holds the
\* mutex alone, and a drain with no record operation since the previous
\* drain returns zero counts and no sample.
C4_DrainResetsTogether ==
    /\ InDrain => mutex = {MainThread}
    /\ (HasSnapshot /\ m_expected.n = 0) =>
          /\ m_numErrors = 0
          /\ m_numRecommendations = 0
          /\ m_latencies = <<>>

\* every request started has been recorded and drained before, and a
\* further drain with no record in between has returned nothing
C4_Witness ==
    /\ cpc = "rate"
    /\ nreq = MaxRequests
    /\ \A w \in Workers : wpc[w] = "check"
    /\ latencies = <<>>
    /\ m_expected.n = 0
    /\ m_latencies = <<>>

\* C5: once main has received a shutdown signal (sigtimedwait returned
\* it), running is cleared, the workers return, main joins them and the
\* process reaches Terminated (a process that a further signal kills in
\* the meantime is left aside).
C5_ShutdownTerminates ==
    (signo > 0) ~> (cpc = "Terminated" \/ proc = "killed")

\* C6: once workers exist, SIGINT and SIGQUIT are never taken with their
\* default disposition by any thread: no signal kills the process.
C6_SignalNeverKills == ~(proc = "killed" /\ spawned >= 1)

\* C7: the five values quartiles returns for a non-empty sample are in
\* order: min <= Q1 <= median <= Q3 <= max.
C7_QuartilesOrdered ==
    qpc = "returned" =>
        /\ qres.ret[1] <= qres.ret[2]
        /\ qres.ret[2] <= qres.ret[3]
        /\ qres.ret[3] <= qres.ret[4]
        /\ qres.ret[4] <= qres.ret[5]

\* C8: for the sample 1,2,3,4,5 in any order quartiles returns min = 1,
\* Q1 = 1.5, median = 3, Q3 = 4.5, max = 5 (in half units: 2, 3, 6, 9, 10).
C8_OneToFive ==
    (qpc = "returned" /\ Sort(qin) = <<1, 2, 3, 4, 5>>) =>
        qres.ret = <<2, 3, 6, 9, 10>>

\* C9: quartiles called on an empty sample throws, whatever lies beside
\* the vector: it returns no array, reads no element and leaves the
\* sample as it was.
C9_EmptySampleThrows ==
    (qpc # "call" /\ qin = <<>>) =>
        /\ qpc = "thrown"
        /\ qres.thrown
        /\ qres.ret = <<>>
        /\ qres.reads = {}
        /\ qres.a = qin

\* quartiles has been called on the empty sample
C9_Witness == qpc = "thrown" /\ qin = <<>>

\* C10: a worker returns only from the test of running at the top of an
\* iteration, with running false; a finished request, whatever its
\* outcome, is followed by the record block, which adds one to numErrors
\* exactly when the request failed, and then by the next test of running.
C10_WorkerStep(w) ==
    /\ (wpc[w] # "done" /\ wpc'[w] = "done") =>
          (wpc[w] = "check" /\ ~running)
    /\ (wpc[w] = "perform" /\ wpc'[w] \notin {"perform", "gone"}) =>
          wpc'[w] = "lock"
    /\ (wpc[w] = "lock" /\ wpc'[w] \notin {"lock", "gone"}) =>
          /\ wpc'[w] = "push"
          /\ numErrors' = numErrors + (IF error[w] THEN 1 ELSE 0)
    /\ (wpc[w] = "push" /\ wpc'[w] \notin {"push", "gone"}) =>
          wpc'[w] = "check"

C10_WorkerLeavesOnlyOnRunningFalse ==
    [][\A w \in Workers : C10_WorkerStep(w)]_vars

\* worker 1, alone so far, has had a request fail, has recorded it and is
\* performing its next request
C10_Witness ==
    /\ wpc[1] = "perform"
    /\ wpc[2] = "unborn"
    /\ nreq = 2
    /\ numErrors = 1
    /\ Len(latencies) = 1

\* C11: with a command line that gives no URL, or a concurrency that is
\* not positive, no worker thread is spawned and no request is started.
C11_InvalidConfigStartsNothing ==
    (~url \/ concurrency < 1) => (spawned = 0 /\ nreq = 0)

\* the controller's state, numbered in the order Starting (the spawn loop),
\* Running (the report loop, running true), ShuttingDown (the report loop,
\* running false), Joining (the join loop), Terminated (main has returned)
InLoop == cpc \in {"loop", "wait", "lock", "reset", "clear", "rate", "report"}
Phase ==
    CASE cpc = "spawn"      -> 0
      [] InLoop /\ running  -> 1
      [] InLoop /\ ~running -> 2
      [] cpc = "join"       -> 3
      [] cpc = "Terminated" -> 4
      [] OTHER              -> 5

\* C12: main reaches Terminated (curl_global_cleanup, return 0) only when
\* every worker has returned from httpClientMain, its curl handle cleaned
\* up, so that no worker is performing or recording then; and the
\* controller goes through its states in the order Starting, Running,
\* ShuttingDown, Joining, Terminated, one state at a time.
C12_Step ==
    /\ cpc' = "Terminated" =>
          /\ \A w \in 1 .. concurrency : wpc'[w] = "done"
          /\ joined' = concurrency
          /\ mutex' = {}
    /\ cpc' # "gone" => (Phase' = Phase \/ Phase' = Phase + 1)

C12_TerminatedAfterAllWorkers == [][C12_Step]_vars

\* main has returned 0 after a shutdown signal, both workers having
\* performed a request
C12_Witness ==
    /\ cpc = "Terminated"
    /\ proc = "exited"
    /\ signo > 0
    /\ nreq = 2
    /\ \A w \in Workers : wpc[w] = "done"

\* C13: once sigtimedwait has returned a signal, running is false, main
\* does not wait again, and the tick goes on through its drain, its
\* statistics and its report to the join loop: the process does not end
\* in a fault in between.
C13_FinalTickReported ==
    signo > 0 =>
        /\ ~running
        /\ cpc # "wait"
        /\ proc \notin {"sigfpe", "aborted"}

\* C14: running is true from the start of main; its value changes only
\* from true to false, only in main's wait step and only when
\* sigtimedwait has returned a signal; no step of a worker changes it;
\* main is in its wait step only with running true, so that the write
\* happens once; running never becomes true again.
C14_Step ==
    /\ cpc \in {"spawn", "wait"} => running
    /\ running' # running =>
          /\ running /\ ~running'
          /\ cpc = "wait" /\ cpc' = "lock"
          /\ signo' \in Signals
          /\ wrkvars' = wrkvars
    /\ ~running => ~running'

C14_RunningClearedOnceByMain == [][C14_Step]_vars

\* main has cleared running on SIGINT while a worker is in a request
C14_Witness ==
    /\ Alive
    /\ ~running
    /\ signo = SIGINT
    /\ \E w \in Workers : wpc[w] = "perform"

\* C15: at most one thread holds control.mutex; a worker holds it exactly
\* in its record block and main exactly in its drain block, so that no
\* worker holds it while it is in curl_easy_perform and main does not hold
\* it while it is in sigtimedwait.
C15_LockHolderNotBlocked ==
    /\ Cardinality(mutex) <= 1
    /\ \A w \in Workers : w \in mutex <=> InRecord(w)
    /\ MainThread \in mutex <=> InDrain
    /\ \A w \in Workers : wpc[w] = "perform" => w \notin mutex
    /\ cpc = "wait" => MainThread \notin mutex

\* worker 2 is in its record block while worker 1 is in a request and main
\* is in sigtimedwait
C15_Witness ==
    /\ mutex = {2}
    /\ wpc[1] = "perform"
    /\ cpc = "wait"

\* the workers that have started a request and not yet recorded it
InFlight == {w \in Workers : wpc[w] \in {"perform", "lock", "push"}}

\* The steps of a worker, as far as running is concerned: a worker looks
\* at running only in the loop test that precedes a request; a request
\* under way goes on to the record block, which counts it and pushes its
\* latency once, whatever running is; a worker that finds running false
\* returns without starting a request.  Every request started is either
\* under way or recorded once.  (This holds of every step, under Spec.)
C16_WorkerStep(w) ==
    /\ (wpc[w] = "perform" /\ wpc'[w] \notin {"perform", "gone"}) =>
          /\ wpc'[w] = "lock"
          /\ UNCHANGED << nreq, total, latencies >>
    /\ (wpc[w] = "lock" /\ wpc'[w] \notin {"lock", "gone"}) =>
          /\ wpc'[w] = "push"
          /\ UNCHANGED << nreq, total, latencies >>
    /\ (wpc[w] = "push" /\ wpc'[w] \notin {"push", "gone"}) =>
          /\ wpc'[w] = "check"
          /\ total'.n = total.n + 1
          /\ latencies' = Append(latencies, latency[w])
          /\ UNCHANGED nreq
    /\ (wpc[w] = "check" /\ wpc'[w] \notin {"check", "gone"}) =>
          IF running
          THEN wpc'[w] = "perform" /\ nreq' = nreq + 1
          ELSE wpc'[w] = "done" /\ nreq' = nreq
    /\ wpc[w] = "done" => wpc'[w] \in {"done", "gone"}

C16_Step ==
    /\ \A w \in Workers : C16_WorkerStep(w)
    /\ running' # running => (wpc' = wpc /\ nreq' = nreq /\ total' = total)
    /\ nreq = total.n + Cardinality(InFlight)

C16_StepsIgnoreRunning == [][C16_Step]_vars

\* C16: a request that is under way when running is false is not given
\* up: it is completed and recorded, and then the worker tests running and
\* returns.  (A process killed by a signal, C6, is left aside.)
C16_StartedRequestIsRecorded ==
    \A w \in Workers :
        (wpc[w] = "perform" /\ ~running) ~>
            (wpc[w] = "done" \/ proc = "killed")

\* the body received so far in this request holds the marker byte
MarkerInBody == \E i \in 1 .. Len(nwbody) : nwbody[i] = 128

\* C17: from the start of a request to its record block, recommendation
\* is true exactly when a byte of the body received so far is 128,
\* however the body is cut into chunks; so it is false when the request
\* starts, whatever the request before has left, stays true once a chunk
\* has set it, and is counted exactly when the whole body holds the byte.
C17_FlagIffMarkerInBody ==
    nwpc \in {"perform", "record"} => (nwrecommendation <=> MarkerInBody)

\* the second request of the worker, after a first one that was counted:
\* its body came in two chunks with the marker in the first bytes and
\* other bytes, NUL among them, around it
C17_Witness ==
    /\ nwpc = "record"
    /\ nwleft = 0
    /\ nwcount = 1
    /\ nwchunks = 2
    /\ nwbody = << 0, 128, 127 >>
    /\ nwrecommendation

\* C18: when no thread holds control.mutex, numErrors and
\* numRecommendations are at most the number of latency samples in
\* control.latencies; the same holds of main's snapshot; and the
\* recommendation rate of a snapshot with at least one sample is
\* 100 * numRecommendations / size, truncated, a whole number of 0..100.
C18_CountsAtMostSamples ==
    /\ mutex = {} =>
          /\ numErrors <= Len(latencies)
          /\ numRecommendations <= Len(latencies)
    /\ HasSnapshot =>
          /\ m_numErrors <= Len(m_latencies)
          /\ m_numRecommendations <= Len(m_latencies)
    /\ (cpc = "report" /\ Len(m_latencies) >= 1) =>
          /\ recommendationRate \in 0 .. 100
          /\ recommendationRate * Len(m_latencies) <= 100 * m_numRecommendations
          /\ 100 * m_numRecommendations < (recommendationRate + 1) * Len(m_latencies)

\* a snapshot of two samples, one of them with the signal flag: 50 %
C18_Witness ==
    /\ cpc = "report"
    /\ Len(m_latencies) = 2
    /\ m_numRecommendations = 1
    /\ m_numErrors = 2
    /\ recommendationRate = 50

\* the record operations completed so far are those of the snapshots
\* taken so far and those in the aggregator: samples, errors, signals
Conserved ==
    /\ total.n = drained.n + Len(latencies)
    /\ total.err = drained.err + numErrors
    /\ total.sig = drained.sig + numRecommendations

\* C19, as stated: in every state, the record operations completed so far
\* are the sum of the snapshots taken so far plus the content of the
\* aggregator, for the samples, the errors and the signals.
C19_ConservedInEveryState == Conserved

\* C19, amended: the same in every state in which no thread holds
\* control.mutex; no outcome is in two snapshots and none is lost between
\* two drains, and what is recorded after the last drain stays in the
\* aggregator when main returns.
C19_ConservedWhenLockFree == mutex = {} => Conserved

\* main has returned; of the two requests recorded, the first was drained
\* by the last tick and the second, recorded after that drain, is still
\* in the aggregator
C19_Witness ==
    /\ cpc = "Terminated"
    /\ total.n = 2
    /\ drained.n = 1
    /\ Len(latencies) = 1

\* C20: for a non-empty sample of length n, quartiles reads only elements
\* at the indices 0 .. n-1 of the sorted sample, and each of its three
\* calls of median reads only inside the range it is given: [0, n) for
\* the median, [0, n/2) for Q1 and [n/2, n) for Q3.
C20_ReadsInsideRanges ==
    qpc = "returned" =>
        LET n == Len(qin)
            h == n \div 2
        IN  /\ qres.reads \subseteq 0 .. n - 1
            /\ \A g \in Garbage :
                  /\ median(qres.a, 0, n, g).reads \subseteq 0 .. n - 1
                  /\ median(qres.a, 0, h, g).reads \subseteq 0 .. h - 1
                  /\ median(qres.a, h, n, g).reads \subseteq h .. n - 1

=============================================================================
